---------------------------- MODULE Spec2Model ----------------------------
(***************************************************************************)
(* Email agent (src/app/main.py): the /agent/run endpoint builds an        *)
(* AgentState, runs the two-node workflow categorizer -> writer -> END     *)
(* and returns the category and the reply.                                 *)
(*                                                                         *)
(* Texts the code inspects (the model's outputs, category, the reply) are  *)
(* sequences of one-character strings, so that strip(), upper() and the    *)
(* substring test `in` are computed as Python computes them.  The email    *)
(* and the history are only copied and embedded into prompts, so they are  *)
(* opaque strings.                                                         *)
(***************************************************************************)
EXTENDS Naturals, Sequences, FiniteSets, TLC

VARIABLES
    pc,         \* position of the request: idle, categorizer, writer, END, responded
    q,          \* the RequestData of the request in flight
    state,      \* the AgentState of the workflow run
    catResp,    \* outcome of llm.invoke in analyze_email for this request
    draftResp,  \* outcome of llm.invoke in draft_reply for this request
    llmCalls,   \* the prompts sent to the model during this request, in order
    trace,      \* the workflow nodes executed during this request, in order
    response    \* the endpoint's response to the request in flight

vars == <<pc, q, state, catResp, draftResp, llmCalls, trace, response>>

-----------------------------------------------------------------------------
(* Bounds of the inputs *)

\* longest padding put before and after a word in a classifier output
MaxPad == 1
\* longest text the model returns to the writer
MaxReplyLen == 3

-----------------------------------------------------------------------------
(* Texts *)

LowerCase == <<"a","b","c","d","e","f","g","h","i","j","k","l","m",
               "n","o","p","q","r","s","t","u","v","w","x","y","z">>
UpperCase == <<"A","B","C","D","E","F","G","H","I","J","K","L","M",
               "N","O","P","Q","R","S","T","U","V","W","X","Y","Z">>

\* the ASCII characters str.strip() removes (it also removes \v and the
\* Unicode spaces, which the texts here never hold)
Whitespace == {" ", "\t", "\n", "\r", "\f"}

UpperChar(c) ==
    IF \E i \in DOMAIN LowerCase : LowerCase[i] = c
    THEN UpperCase[CHOOSE i \in DOMAIN LowerCase : LowerCase[i] = c]
    ELSE c

\* str.upper(), on ASCII text
Upper(s) == [i \in DOMAIN s |-> UpperChar(s[i])]

\* str.strip(chars): drops every leading and every trailing character in chars
StripChars(s, chars) ==
    LET keep == {i \in DOMAIN s : s[i] \notin chars}
    IN  IF keep = {} THEN <<>>
        ELSE LET lo == CHOOSE i \in keep : \A j \in keep : i <= j
                 hi == CHOOSE i \in keep : \A j \in keep : j <= i
             IN  SubSeq(s, lo, hi)

\* str.strip(): strips whitespace
Strip(s) == StripChars(s, Whitespace)

\* `sub in s` of Python
Contains(s, sub) ==
    \E i \in 0..Len(s) :
        /\ i + Len(sub) <= Len(s)
        /\ SubSeq(s, i + 1, i + Len(sub)) = sub

\* all sequences over S of length at most n
RECURSIVE SeqsUpTo(_, _)
SeqsUpTo(S, n) ==
    IF n = 0 THEN {<<>>}
    ELSE LET shorter == SeqsUpTo(S, n - 1)
         IN  shorter \cup {Append(s, c) : s \in shorter, c \in S}

URGENT == <<"U","R","G","E","N","T">>
LEAD   == <<"L","E","A","D">>
SPAM   == <<"S","P","A","M">>
\* the label OTHER (the bare word is reserved in TLA+)
OTHER_ == <<"O","T","H","E","R">>

valid == {URGENT, LEAD, SPAM, OTHER_}

IGNORE == <<"I","G","N","O","R","E">>

FallbackReply ==
    <<"T", "h", "a", "n", "k", " ", "y", "o", "u", " ", "f", "o", "r", " ",
      "y", "o", "u", "r", " ", "e", "m", "a", "i", "l", ".", " ", "W", "e",
      " ", "w", "i", "l", "l", " ", "r", "e", "s", "p", "o", "n", "d", " ",
      "s", "h", "o", "r", "t", "l", "y", ".">>

CALENDLY_LINK == "https://cal.com/demo-link"

-----------------------------------------------------------------------------
(* Inputs *)

Inputs    == {"Please fix my leaking faucet ASAP", "Buy now"}
Histories == {"", "Re: faucet"}

Requests == [input : Inputs, history : Histories]

\* what ChatOllama answers: a text, or an exception out of llm.invoke (or out
\* of reading response.content)
Ok(text)  == [kind |-> "ok", content |-> text]
Raised    == [kind |-> "raise", content |-> <<>>]
NotCalled == [kind |-> "none", content |-> <<>>]

Words == { URGENT,
           <<"l","e","a","d">>,
           <<"S","p","a","m">>,
           OTHER_,
           <<"n","o">>,
           <<"S","P"," ","A","M">>,
           <<"l","e","a","d","S","P","A","M">>,
           <<>> }

Pads == SeqsUpTo({" ", "x"}, MaxPad)

ClassifierTexts == {pre \o w \o suf : pre \in Pads, w \in Words, suf \in Pads}

ReplyTexts == SeqsUpTo({" ", "\n", "a"}, MaxReplyLen)

-----------------------------------------------------------------------------
(* The program *)

\* a sanitizer that strips blanks, then newlines, instead of all whitespace at once
clean_reply_chained(text) == StripChars(StripChars(text, {" "}), {"\n"})

clean_reply(text) == Strip(text)

\* analyze_email without the validation fallback
analyze_email_unvalidated(st, r) ==
    IF r.kind = "ok"
    THEN [category |-> Upper(Strip(r.content))]
    ELSE [category |-> OTHER_]

\* analyze_email whose except branch leaves the category empty
analyze_email_nodefault(st, r) ==
    IF r.kind = "ok"
    THEN LET category == Upper(Strip(r.content))
         IN  IF ~ \E v \in valid : Contains(category, v)
             THEN [category |-> OTHER_]
             ELSE [category |-> category]
    ELSE [category |-> <<>>]

\* analyze_email that also returns a defaulted history in its update
analyze_email_clobber(st, r) ==
    IF r.kind = "ok"
    THEN LET category == Upper(Strip(r.content))
         IN  IF ~ \E v \in valid : Contains(category, v)
             THEN [category |-> OTHER_, history |-> ""]
             ELSE [category |-> category, history |-> ""]
    ELSE [category |-> OTHER_, history |-> ""]

\* analyze_email: the state update the node returns for model outcome r
analyze_email(st, r) ==
    IF r.kind = "ok"
    THEN LET category == Upper(Strip(r.content))
         IN  IF ~ \E v \in valid : Contains(category, v)
             THEN [category |-> OTHER_]
             ELSE [category |-> category]
    ELSE [category |-> OTHER_]

\* the prompt analyze_email sends: it embeds the history and the email
analyze_prompt(st) == <<"categorizer", st.history, st.email_content>>

\* a short-circuit test that compares against the lower-case label
is_spam_lowercase(category) == Contains(category, <<"s","p","a","m">>)

\* draft_reply's short-circuit test
is_spam(category) == Contains(category, SPAM)

\* the prompt draft_reply sends
draft_prompt(st) ==
    <<"writer", st.category, st.history, st.email_content, CALENDLY_LINK>>

\* draft_reply that stores the raw reply, skipping the post-processing
draft_reply_raw(st, r) ==
    IF r.kind = "ok"
    THEN [generated_reply |-> r.content]
    ELSE [generated_reply |-> FallbackReply]

\* draft_reply whose except branch returns an empty reply
draft_reply_nofallback(st, r) ==
    IF r.kind = "ok"
    THEN [generated_reply |-> clean_reply(r.content)]
    ELSE [generated_reply |-> <<>>]

\* draft_reply past the short-circuit: the update for model outcome r
draft_reply(st, r) ==
    IF r.kind = "ok"
    THEN [generated_reply |-> clean_reply(r.content)]
    ELSE [generated_reply |-> FallbackReply]

\* how the workflow folds a node's partial update into the state
Merge(st, upd) ==
    [k \in DOMAIN st |-> IF k \in DOMAIN upd THEN upd[k] ELSE st[k]]

\* the graph: entry point and edges
EntryPoint == "categorizer"

\* a graph whose categorizer is wired straight to END
NextNode_skip(n) ==
    CASE n = "categorizer" -> "END"
      [] n = "writer"      -> "END"

NextNode(n) ==
    CASE n = "categorizer" -> "writer"
      [] n = "writer"      -> "END"

\* run_agent's initial_state
initial_state(rq) ==
    [ email_content   |-> rq.input,
      history         |-> rq.history,
      category        |-> <<>>,
      generated_reply |-> <<>> ]

NoResponse == [status |-> "none", category |-> <<>>, reply |-> <<>>]

Init ==
    /\ pc = "idle"
    /\ q = [input |-> "", history |-> ""]
    /\ state = initial_state(q)
    /\ catResp = NotCalled
    /\ draftResp = NotCalled
    /\ llmCalls = <<>>
    /\ trace = <<>>
    /\ response = NoResponse

\* POST /agent/run arrives: run_agent builds the initial state and invokes the graph
RunAgent ==
    /\ pc \in {"idle", "responded"}
    /\ \E rq \in Requests :
         /\ q' = rq
         /\ state' = initial_state(rq)
    /\ pc' = EntryPoint
    /\ catResp' = NotCalled
    /\ draftResp' = NotCalled
    /\ llmCalls' = <<>>
    /\ trace' = <<>>
    /\ response' = NoResponse

\* node "categorizer"
Categorizer ==
    /\ pc = "categorizer"
    /\ \E r \in {Ok(t) : t \in ClassifierTexts} \cup {Raised} :
         /\ catResp' = r
         /\ state' = Merge(state, analyze_email(state, r))
    /\ llmCalls' = Append(llmCalls, analyze_prompt(state))
    /\ trace' = Append(trace, "categorizer")
    /\ pc' = NextNode("categorizer")
    /\ UNCHANGED <<q, draftResp, response>>

\* node "writer"
Writer ==
    /\ pc = "writer"
    /\ IF is_spam(state.category)
       THEN /\ state' = Merge(state, [generated_reply |-> IGNORE])
            /\ UNCHANGED <<draftResp, llmCalls>>
       ELSE /\ \E r \in {Ok(t) : t \in ReplyTexts} \cup {Raised} :
                 /\ draftResp' = r
                 /\ state' = Merge(state, draft_reply(state, r))
            /\ llmCalls' = Append(llmCalls, draft_prompt(state))
    /\ trace' = Append(trace, "writer")
    /\ pc' = NextNode("writer")
    /\ UNCHANGED <<q, catResp, response>>

\* app_agent.invoke returned: run_agent answers
Respond ==
    /\ pc = "END"
    /\ response' = [ status   |-> "success",
                     category |-> state.category,
                     reply    |-> state.generated_reply ]
    /\ pc' = "responded"
    /\ UNCHANGED <<q, state, catResp, draftResp, llmCalls, trace>>

Next == RunAgent \/ Categorizer \/ Writer \/ Respond

Spec == Init /\ [][Next]_vars

\* a request is served synchronously: once received, every step of it is taken
LiveSpec ==
    Spec /\ WF_vars(Categorizer) /\ WF_vars(Writer) /\ WF_vars(Respond)

-----------------------------------------------------------------------------
(* Shorthands used by the properties *)

Categorized == pc \in {"writer", "END", "responded"}
Drafted     == pc \in {"END", "responded"}

\* the classifier's output as analyze_email normalises it
Normalized == Upper(Strip(catResp.content))

LabelsIn(text) == {v \in valid : Contains(text, v)}

WriterCalls == {i \in DOMAIN llmCalls : llmCalls[i][1] = "writer"}
CategorizerCalls == {i \in DOMAIN llmCalls : llmCalls[i][1] = "categorizer"}


-----------------------------------------------------------------------------
(* Properties *)

\* C1: once the Categorize step has run, category is one of URGENT, LEAD,
\* SPAM, OTHER, whatever the model answered and also when it failed.
CategoryIsValidLabel ==
    Categorized => state.category \in valid

\* C2: when the classifier's output, trimmed and uppercased, contains a label
\* as a substring, the category is that label.
CategoryIsContainedLabel ==
    (Categorized /\ catResp.kind = "ok" /\ LabelsIn(Normalized) # {})
        => state.category \in LabelsIn(Normalized)

\* C3: when the classifier's output, trimmed and uppercased, contains none of
\* the four labels (the empty output included), category is OTHER and the
\* Draft step invokes the model.
NoLabelFallsBackToOther ==
    (Categorized /\ catResp.kind = "ok" /\ LabelsIn(Normalized) = {})
        => /\ state.category = OTHER_
           /\ Drafted => /\ draftResp.kind # "none"
                         /\ Cardinality(WriterCalls) = 1

NoLabelCase ==
    /\ Drafted
    /\ catResp.kind = "ok"
    /\ LabelsIn(Normalized) = {}
    /\ Normalized # <<>>
    /\ draftResp.kind = "ok"

\* C4: when the Draft step has run with category SPAM, the reply is IGNORE
\* and the model was not invoked by the Draft step.
SpamIsIgnored ==
    (Drafted /\ state.category = SPAM)
        => /\ state.generated_reply = IGNORE
           /\ WriterCalls = {}
           /\ draftResp.kind = "none"

SpamCase ==
    /\ Drafted
    /\ state.category = SPAM
    /\ catResp.content # SPAM

\* C5: when the Draft step has run with a category other than SPAM and its
\* model call succeeded, the reply is clean_reply of the model's text.
DraftIsSanitized ==
    (Drafted /\ state.category # SPAM /\ draftResp.kind = "ok")
        => state.generated_reply = clean_reply(draftResp.content)

DraftCase ==
    /\ Drafted
    /\ state.category \notin valid
    /\ draftResp.kind = "ok"
    /\ clean_reply(draftResp.content) # draftResp.content
    /\ clean_reply(draftResp.content) # <<>>

\* C6: when the model raises in the Categorize step, category is OTHER, the
\* model was asked once (no retry), the workflow goes on to the Draft step
\* and the endpoint answers with status success.
CategorizeFailureDefaults ==
    catResp.kind = "raise"
        => /\ Categorized
           /\ state.category = OTHER_
           /\ Cardinality(CategorizerCalls) = 1
           /\ Drafted => trace = <<"categorizer", "writer">>
           /\ pc = "responded" => /\ response.status = "success"
                                  /\ response.category = OTHER_

CategorizeFailureCase ==
    /\ pc = "responded"
    /\ catResp.kind = "raise"
    /\ draftResp.kind = "ok"

\* C7: when the model raises in the Draft step, the reply is the fixed
\* acknowledgment, the model was asked once by the step, and the endpoint
\* answers with status success and that reply.
DraftFailureDefaults ==
    draftResp.kind = "raise"
        => /\ Drafted
           /\ state.generated_reply = FallbackReply
           /\ Cardinality(WriterCalls) = 1
           /\ pc = "responded" => /\ response.status = "success"
                                  /\ response.reply = FallbackReply

DraftFailureCase ==
    /\ pc = "responded"
    /\ draftResp.kind = "raise"
    /\ catResp.kind = "ok"

\* C8: the nodes of a request run in the order categorizer, writer, each
\* exactly once, and every started workflow run reaches END.
WorkflowOrder ==
    /\ [](pc = "categorizer" => trace = <<>>)
    /\ [](pc = "writer" => trace = <<"categorizer">>)
    /\ [](Drafted => trace = <<"categorizer", "writer">>)
    /\ (pc = "categorizer") ~> (pc = "END")

WorkflowDoneCase ==
    /\ pc = "END"
    /\ trace = <<"categorizer", "writer">>
    /\ catResp.kind = "raise"
    /\ draftResp.kind = "raise"

\* C9: sanitizing a sanitized reply changes nothing, for the reply the Draft
\* step stored and for the raw text it was made from.
SanitizerIdempotent ==
    (Drafted /\ draftResp.kind = "ok")
        => /\ clean_reply(state.generated_reply) = state.generated_reply
           /\ clean_reply(clean_reply(draftResp.content))
                = clean_reply(draftResp.content)

SanitizerCase ==
    /\ Drafted
    /\ draftResp.kind = "ok"
    /\ Len(state.generated_reply) >= 1
    /\ Len(draftResp.content) >= Len(state.generated_reply) + 2

\* C10: the Categorize step changes only category, the Draft step changes
\* only generated_reply, the state keeps its four fields, and email_content
\* and history stay as the request set them.
FrameKept ==
    [][ /\ pc = "categorizer"
            => state' = [state EXCEPT !.category = state'.category]
        /\ pc = "writer"
            => state' = [state EXCEPT !.generated_reply = state'.generated_reply]
        /\ pc \in {"categorizer", "writer", "END"}
            => /\ DOMAIN state' = DOMAIN state
               /\ state'.email_content = q.input
               /\ state'.history = q.history
      ]_vars

FrameCase ==
    /\ Drafted
    /\ state.email_content = q.input
    /\ state.history = "Re: faucet"
    /\ state.category = URGENT
    /\ state.generated_reply = <<"a">>

=============================================================================
